---- MODULE Spec2Model ----
(***************************************************************************)
(* FastbuildAI console back end: the process-restart coordinator           *)
(* (SystemService.restartApplication) and the user-administration          *)
(* controller (UserController) as state machines.                          *)
(*                                                                         *)
(* SpecRestart : the restart coordinator, one Node.js process.  Every      *)
(*               action is one run-to-completion segment of the code, cut  *)
(*               at the awaits and at the setTimeout boundary.             *)
(* SpecUser    : the account store under the UserController handlers.      *)
(* SpecCache   : the UserController with the permission cache behind it,   *)
(*               getUserInfo and clearUserCache cut at their awaits.       *)
(* SpecLogin   : the login settings (validateLoginSettings, DictService).  *)
(* SpecLayout  : the console PageController, saveLayout cut at its awaits. *)
(* SpecGroup   : groupConversationsByDate as a function of its input.      *)
(***************************************************************************)
EXTENDS Integers, Sequences, FiniteSets, TLC

(***************************************************************************)
(* Bounds                                                                  *)
(***************************************************************************)
\* number of restartApplication requests the process receives
MaxCalls == 3
\* number of user ids
MaxUsers == 3
\* largest balance a user holds
MaxBalance == 1
\* number of user-administration requests in one behaviour
MaxRequests == 2
\* number of users the store holds when the permission cache is examined
MaxCacheUsers == 2
\* number of repeated clearUserCache calls compared with a single one
MaxClears == 3
\* number of conversations handed to groupConversationsByDate
MaxItems == 3
\* number of rows the page table holds
MaxPages == 3
\* number of saveLayout requests suspended at the same time
MaxSaving == 2

Calls == 1..MaxCalls

Ids == 1..MaxUsers

(***************************************************************************)
(* Program constants                                                       *)
(***************************************************************************)
\* process.exit(0): the designated exit code of the exit-to-relaunch path
ExitRestart == 0
\* process.exit(1): the exit code of the inner catch
ExitFailure == 1

VARIABLES
    isRestarting,   \* SystemService.isRestarting (static, process-wide)
    calls,          \* one record per restartApplication request
    exitCode,       \* {} while the process runs, {code} once process.exit(code) ran
    pm2Env,         \* PM2_HOME / PM2_JSON_PROCESSING / PM2_CLI present in process.env
    pm2Issued,      \* requests whose `pm2 restart <app>` command succeeded
    users,          \* the account store: id -> user row, for the ids that exist
    currentUser,    \* the id of the user the next request is made by (@Playground)
    clearRequested, \* ids whose clearUserCache(id) was issued (not awaited)
    last,           \* the last user-administration request and its outcome
    nreq,           \* number of user-administration requests handled
    permCache,      \* the permission cache: id -> cached permission codes
    getting,        \* getUserInfo requests suspended in getUserPermissions
    warned,         \* ids whose failed clearUserCache was logged by .catch
    dict,           \* the dictionary entry login_settings of group auth
    lastLogin,      \* the last login-settings request and its outcome
    pages,          \* the page table: one row per saved layout record
    saving,         \* saveLayout requests suspended after their findOne
    lastLayout,     \* the last layout request and its outcome
    conversations,  \* the list handed to groupConversationsByDate
    groups          \* what groupConversationsByDate returned for it

restartVars == <<isRestarting, calls, exitCode, pm2Env, pm2Issued>>

userVars == <<users, currentUser, clearRequested, last, nreq>>

cacheVars == <<permCache, getting, warned>>

loginVars == <<dict, lastLogin>>

layoutVars == <<pages, saving, lastLayout>>

groupVars == <<conversations, groups>>

\* what the restart coordinator never touches
nonRestartVars == <<userVars, cacheVars, loginVars, layoutVars, groupVars>>

\* what the user controller's account and cache handlers never touch
nonUserVars == <<restartVars, loginVars, layoutVars, groupVars>>

vars == <<isRestarting, calls, exitCode, pm2Env, pm2Issued,
          users, currentUser, clearRequested, last, nreq,
          permCache, getting, warned, dict, lastLogin,
          pages, saving, lastLayout, conversations, groups>>

(***************************************************************************)
(* A request's record.                                                     *)
(*   pc      idle      not issued yet                                      *)
(*           probe     suspended at `await this.checkIfRunningWithPm2()`   *)
(*           returned  the async function returned a result                *)
(*           threw     the async function rejected (outer catch)           *)
(*   result  none / accepted (success: true) / declined (success: false)   *)
(*   isPm2   the probe's answer, captured by the timer callback            *)
(*   timer   none / scheduled (setTimeout pending) /                       *)
(*           exec (callback suspended at `await execPromise(pm2 restart)`) *)
(*           / done (callback finished)                                    *)
(*   execOk  none / ok / fail : how the pm2 restart command ended          *)
(*   timerErr  an error was raised inside the callback's try block         *)
(***************************************************************************)
NewCall ==
    [pc |-> "idle", result |-> "none", isPm2 |-> FALSE, timer |-> "none",
     execOk |-> "none", timerErr |-> FALSE]

Alive == exitCode = {}

\* `pm2 list | grep ...` ends with output, with empty output, or fails
ListResults == {"match", "empty", "fail"}

\* checkIfRunningWithPm2: environment markers first, then the process list;
\* a failing list command is caught and answers false
CheckIfRunningWithPm2(env, list) ==
    IF env THEN TRUE
    ELSE IF list = "fail" THEN FALSE
    ELSE list = "match"

\* mutant: the reentrancy guard is missing
AlreadyRestarting_NoGuard == FALSE

\* the reentrancy guard `if (SystemService.isRestarting)`
AlreadyRestarting == isRestarting

\* mutant: the outer catch rethrows without resetting the flag
OuterCatch_NoReset(c) ==
    /\ calls' = [calls EXCEPT ![c].pc = "threw"]
    /\ UNCHANGED <<isRestarting, exitCode, pm2Env, pm2Issued>>

\* outer catch: reset the flag and rethrow
OuterCatch(c) ==
    /\ isRestarting' = FALSE
    /\ calls' = [calls EXCEPT ![c].pc = "threw"]
    /\ UNCHANGED <<exitCode, pm2Env, pm2Issued>>

\* restartApplication up to its first await.  err: an error is raised inside
\* the try block of this segment.
RequestRestart(c, err) ==
    /\ Alive
    /\ UNCHANGED nonRestartVars
    /\ calls[c].pc = "idle"
    /\ IF err
       THEN OuterCatch(c)
       ELSE IF AlreadyRestarting
            THEN /\ calls' = [calls EXCEPT ![c].pc = "returned",
                                            ![c].result = "declined"]
                 /\ UNCHANGED <<isRestarting, exitCode, pm2Env, pm2Issued>>
            ELSE /\ isRestarting' = TRUE
                 /\ calls' = [calls EXCEPT ![c].pc = "probe"]
                 /\ UNCHANGED <<exitCode, pm2Env, pm2Issued>>

\* mutant: the callback is started at once instead of being deferred
SetTimeoutRestart_Inline(rec, pm2) ==
    [rec EXCEPT !.isPm2 = pm2, !.timer = IF pm2 THEN "exec" ELSE "done"]

\* mutant: the callback does not capture the probe's answer
SetTimeoutRestart_NoCapture(rec, pm2) ==
    [rec EXCEPT !.timer = "scheduled"]

\* setTimeout(callback, 1000): the callback captures isPm2
SetTimeoutRestart(rec, pm2) ==
    [rec EXCEPT !.isPm2 = pm2, !.timer = "scheduled"]

\* restartApplication from the resolved probe to its return
ResumeAfterProbe(c, list, err) ==
    /\ Alive
    /\ UNCHANGED nonRestartVars
    /\ calls[c].pc = "probe"
    /\ IF err
       THEN OuterCatch(c)
       ELSE /\ calls' = [calls EXCEPT ![c] =
                   [SetTimeoutRestart(@, CheckIfRunningWithPm2(pm2Env, list))
                       EXCEPT !.pc = "returned", !.result = "accepted"]]
            /\ UNCHANGED <<isRestarting, exitCode, pm2Env, pm2Issued>>

\* mutant: the inner catch only logs the error
InnerCatch_Swallow(c) ==
    /\ calls' = [calls EXCEPT ![c].timer = "done", ![c].timerErr = TRUE]
    /\ UNCHANGED <<isRestarting, exitCode, pm2Env, pm2Issued>>

\* inner catch: log, reset the flag, process.exit(1)
InnerCatch(c) ==
    /\ isRestarting' = FALSE
    /\ exitCode' = {ExitFailure}
    /\ calls' = [calls EXCEPT ![c].timer = "done", ![c].timerErr = TRUE]
    /\ UNCHANGED <<pm2Env, pm2Issued>>

\* the timer callback up to its await (PM2) or to process.exit(0) (no PM2)
TimerFire(c, err) ==
    /\ Alive
    /\ UNCHANGED nonRestartVars
    /\ calls[c].timer = "scheduled"
    /\ IF err
       THEN InnerCatch(c)
       ELSE IF calls[c].isPm2
            THEN /\ calls' = [calls EXCEPT ![c].timer = "exec"]
                 /\ UNCHANGED <<isRestarting, exitCode, pm2Env, pm2Issued>>
            ELSE /\ exitCode' = {ExitRestart}
                 /\ calls' = [calls EXCEPT ![c].timer = "done"]
                 /\ UNCHANGED <<isRestarting, pm2Env, pm2Issued>>

\* mutant: a failed pm2 command is only logged, without the exit fallback
ExecDone_NoFallback(c, ok, err) ==
    /\ Alive
    /\ UNCHANGED nonRestartVars
    /\ calls[c].timer = "exec"
    /\ IF err
       THEN InnerCatch(c)
       ELSE /\ pm2Issued' = IF ok THEN pm2Issued \cup {c} ELSE pm2Issued
            /\ calls' = [calls EXCEPT ![c].timer = "done",
                                       ![c].execOk = IF ok THEN "ok" ELSE "fail"]
            /\ UNCHANGED <<isRestarting, exitCode, pm2Env>>

\* mutant: a successful pm2 command clears the flag
ExecDone_ResetOnSuccess(c, ok, err) ==
    /\ Alive
    /\ UNCHANGED nonRestartVars
    /\ calls[c].timer = "exec"
    /\ IF err
       THEN InnerCatch(c)
       ELSE IF ok
            THEN /\ pm2Issued' = pm2Issued \cup {c}
                 /\ isRestarting' = FALSE
                 /\ calls' = [calls EXCEPT ![c].timer = "done", ![c].execOk = "ok"]
                 /\ UNCHANGED <<exitCode, pm2Env>>
            ELSE /\ exitCode' = {ExitRestart}
                 /\ calls' = [calls EXCEPT ![c].timer = "done", ![c].execOk = "fail"]
                 /\ UNCHANGED <<isRestarting, pm2Env, pm2Issued>>

\* the timer callback after `pm2 restart <app>` ended.  ok: the command
\* succeeded; otherwise its .catch handler falls back to process.exit(0).
ExecDone(c, ok, err) ==
    /\ Alive
    /\ UNCHANGED nonRestartVars
    /\ calls[c].timer = "exec"
    /\ IF err
       THEN /\ InnerCatch(c)
       ELSE IF ok
            THEN /\ pm2Issued' = pm2Issued \cup {c}
                 /\ calls' = [calls EXCEPT ![c].timer = "done", ![c].execOk = "ok"]
                 /\ UNCHANGED <<isRestarting, exitCode, pm2Env>>
            ELSE /\ exitCode' = {ExitRestart}
                 /\ calls' = [calls EXCEPT ![c].timer = "done", ![c].execOk = "fail"]
                 /\ UNCHANGED <<isRestarting, pm2Env, pm2Issued>>

InitRestart ==
    /\ isRestarting = FALSE
    /\ calls = [c \in Calls |-> NewCall]
    /\ exitCode = {}
    /\ pm2Env \in BOOLEAN
    /\ pm2Issued = {}

NextRestart ==
    \/ \E c \in Calls, err \in BOOLEAN : RequestRestart(c, err)
    \/ \E c \in Calls, list \in ListResults, err \in BOOLEAN : ResumeAfterProbe(c, list, err)
    \/ \E c \in Calls, err \in BOOLEAN : TimerFire(c, err)
    \/ \E c \in Calls, ok \in BOOLEAN, err \in BOOLEAN : ExecDone(c, ok, err)

(***************************************************************************)
(* User administration (UserController over UserService)                   *)
(***************************************************************************)
\* BooleanNumber: 0 (no) / 1 (yes), the type of isRoot and status
BooleanNumber == {0, 1}

Passwords == {"pw0", "pw1"}

Nicknames == {"ann", "bob"}

\* isEnabled(value) of @common/utils/is.util
IsEnabled(v) == v = 1

\* the fields an UpdateUserDto may carry, and the patches tried
PatchFields == {"nickname", "status"}

Patches ==
    {[f \in {"nickname"} |-> n] : n \in Nicknames}
        \cup {[f \in {"status"} |-> st] : st \in BooleanNumber}
        \cup {[f \in PatchFields |-> IF f = "nickname" THEN "bob" ELSE 0]}

Deltas == {-1, 1}

\* the roles a user row may reference (relation `role`)
Roles == {"viewer", "editor"}

\* the patches that move a user to another role
RolePatches == {[f \in {"role"} |-> r] : r \in Roles}

\* the fields of a user row that must never leave the service
SecretFields == {"password", "openid"}

RECURSIVE SortedSeq(_)
\* the ids of S in ascending order: the order findAll returns the rows in
SortedSeq(S) ==
    IF S = {} THEN <<>>
    ELSE LET m == CHOOSE x \in S : \A y \in S : x <= y
         IN  <<m>> \o SortedSeq(S \ {m})

Exists(id) == id \in DOMAIN users

\* userService.findAll({ where: { id: In(ids) } })
FindAll(ids) == SortedSeq(ids \cap DOMAIN users)

\* userService.updateById(id, dto): the dto's fields overwrite the row's
UpdateById(us, id, patch) ==
    [us EXCEPT ![id] = [f \in DOMAIN @ |-> IF f \in DOMAIN patch THEN patch[f] ELSE @[f]]]

\* the excludeFields option of findOneById / updateById: the returned
\* projection is the row without the named fields
Project(row, excludeFields) == [f \in DOMAIN row \ excludeFields |-> row[f]]

\* userService.delete(id)
Delete(us, id) == [i \in DOMAIN us \ {id} |-> us[i]]

\* userService.deleteMany(ids)
DeleteMany(us, ids) == [i \in DOMAIN us \ ids |-> us[i]]

\* the request ends: what it returned or raised.  fields: the field names of
\* the user projection it returned, {} when it returned none
RespondWith(op, kind, listed, fields) ==
    /\ last' = [op |-> op, kind |-> kind, listed |-> listed, fields |-> fields]
    /\ nreq' = nreq + 1
    /\ UNCHANGED nonUserVars

\* a request that ends without a user projection and without touching the
\* permission cache
Respond(op, kind, listed) ==
    /\ RespondWith(op, kind, listed, {})
    /\ UNCHANGED cacheVars

\* the request is made by another authenticated user from now on
SwitchUser(a) ==
    /\ a # currentUser
    /\ currentUser' = a
    /\ UNCHANGED <<users, clearRequested, last, nreq>>
    /\ UNCHANGED <<nonUserVars, cacheVars>>

\* mutant: the root gate of update is missing
UpdateDenied_NoGate(id) == FALSE

\* update's gate: the target is root and the caller is not the target
UpdateDenied(id) == IsEnabled(users[id].isRoot) /\ currentUser # id

\* mutant: update does not ask for the cache entry to be cleared
Update_NoClear(id, patch) ==
    /\ nreq < MaxRequests
    /\ IF ~Exists(id)
       THEN /\ Respond("update", "notFound", <<>>)
            /\ UNCHANGED <<users, currentUser, clearRequested>>
       ELSE IF UpdateDenied(id)
            THEN /\ Respond("update", "unauthorized", <<>>)
                 /\ UNCHANGED <<users, currentUser, clearRequested>>
            ELSE /\ users' = UpdateById(users, id, patch)
                 /\ RespondWith("update", "ok", <<>>,
                                DOMAIN Project(users'[id], {"password"}))
                 /\ UNCHANGED <<currentUser, clearRequested, cacheVars>>

\* PATCH users/:id
Update(id, patch) ==
    /\ nreq < MaxRequests
    /\ IF ~Exists(id)
       THEN /\ Respond("update", "notFound", <<>>)
            /\ UNCHANGED <<users, currentUser, clearRequested>>
       ELSE IF UpdateDenied(id)
            THEN /\ Respond("update", "unauthorized", <<>>)
                 /\ UNCHANGED <<users, currentUser, clearRequested>>
            ELSE /\ users' = UpdateById(users, id, patch)
                 /\ clearRequested' = clearRequested \cup {id}
                 /\ RespondWith("update", "ok", <<>>,
                                DOMAIN Project(users'[id], {"password"}))
                 /\ UNCHANGED <<currentUser, cacheVars>>

\* mutant: findOneById answers an absent id with an empty result
FindOneById_NoCheck(id) ==
    /\ nreq < MaxRequests
    /\ Respond("findOneById", "ok", <<>>)
    /\ UNCHANGED <<users, currentUser, clearRequested>>

\* GET users/:id
FindOneById(id) ==
    /\ nreq < MaxRequests
    /\ IF ~Exists(id)
       THEN Respond("findOneById", "notFound", <<>>)
       ELSE /\ RespondWith("findOneById", "ok", <<>>,
                           DOMAIN Project(users[id], {"password", "openid"}))
            /\ UNCHANGED cacheVars
    /\ UNCHANGED <<users, currentUser, clearRequested>>

\* mutant: remove does not look at isRoot
RemoveDenied_NoGate(id) == FALSE

\* remove's gate: the target is root
RemoveDenied(id) == IsEnabled(users[id].isRoot)

\* DELETE users/:id
Remove(id) ==
    /\ nreq < MaxRequests
    /\ IF Exists(id)
       THEN IF RemoveDenied(id)
            THEN /\ Respond("remove", "unauthorized", <<>>)
                 /\ UNCHANGED <<users, currentUser, clearRequested>>
            ELSE /\ users' = Delete(users, id)
                 /\ Respond("remove", "ok", <<>>)
                 /\ UNCHANGED <<currentUser, clearRequested>>
       ELSE /\ Respond("remove", "notFound", <<>>)
            /\ UNCHANGED <<users, currentUser, clearRequested>>

\* mutant: the error names the first root user only
RootUserIds_FirstOnly(found) ==
    LET roots == SelectSeq(found, LAMBDA i : IsEnabled(users[i].isRoot))
    IN  IF roots = <<>> THEN <<>> ELSE <<Head(roots)>>

\* users.filter(isEnabled(user.isRoot)).map(user => user.id)
RootUserIds(found) == SelectSeq(found, LAMBDA i : IsEnabled(users[i].isRoot))

\* POST users/batch-delete
BatchRemove(ids) ==
    /\ nreq < MaxRequests
    /\ LET rootUserIds == RootUserIds(FindAll(ids))
       IN  IF Len(rootUserIds) > 0
           THEN /\ Respond("batchRemove", "unauthorized", rootUserIds)
                /\ UNCHANGED <<users, currentUser, clearRequested>>
           ELSE /\ users' = DeleteMany(users, ids)
                /\ Respond("batchRemove", "ok", <<>>)
                /\ UNCHANGED <<currentUser, clearRequested>>

\* userService.resetPassword(id, password): load, set the credential, persist
ServiceResetPassword(op, id, password) ==
    IF ~Exists(id)
    THEN /\ Respond(op, "notFound", <<>>)
         /\ UNCHANGED <<users, currentUser, clearRequested>>
    ELSE /\ users' = [users EXCEPT ![id].password = password]
         /\ Respond(op, "ok", <<>>)
         /\ UNCHANGED <<currentUser, clearRequested>>

\* POST users/reset-password/:id
ResetPassword(id, password) ==
    /\ nreq < MaxRequests
    /\ ServiceResetPassword("resetPassword", id, password)

\* POST users/reset-password-auto/:id ; generated: generateRandomPassword()
ResetPasswordAuto(id, generated) ==
    /\ nreq < MaxRequests
    /\ ServiceResetPassword("resetPasswordAuto", id, generated)

\* userService.setUserStatus(id, status): load, set the status, persist
SetUserStatus(id, status) ==
    IF ~Exists(id)
    THEN /\ Respond("setStatus", "notFound", <<>>)
         /\ UNCHANGED <<users, currentUser, clearRequested>>
    ELSE /\ users' = [users EXCEPT ![id].status = status]
         /\ Respond("setStatus", "ok", <<>>)
         /\ UNCHANGED <<currentUser, clearRequested>>

\* POST users/status/:id
SetStatus(id, status) ==
    /\ nreq < MaxRequests
    /\ SetUserStatus(id, status)

\* userService.updateBalance(id, dto, currentUser): load, apply the delta
\* with a floor at zero, persist
UpdateBalance(id, delta) ==
    IF ~Exists(id)
    THEN /\ Respond("changeBalance", "notFound", <<>>)
         /\ UNCHANGED <<users, currentUser, clearRequested>>
    ELSE /\ users[id].balance + delta <= MaxBalance
         /\ users' = [users EXCEPT ![id].balance =
                         IF @ + delta < 0 THEN 0 ELSE @ + delta]
         /\ Respond("changeBalance", "ok", <<>>)
         /\ UNCHANGED <<currentUser, clearRequested>>

\* POST users/change-balance/:id
ChangeBalance(id, delta) ==
    /\ nreq < MaxRequests
    /\ UpdateBalance(id, delta)

NewUser(root) ==
    [isRoot |-> root, status |-> 1, balance |-> 0, password |-> "pw0",
     nickname |-> "ann", role |-> "viewer", openid |-> "wx0"]

\* every id holds a freshly created account; the accounts created first,
\* any number of them, are root
InitUser ==
    /\ \E k \in 0..MaxUsers : users = [i \in Ids |-> NewUser(IF i <= k THEN 1 ELSE 0)]
    /\ currentUser \in Ids
    /\ clearRequested = {}
    /\ last = [op |-> "none", kind |-> "none", listed |-> <<>>, fields |-> {}]
    /\ nreq = 0

NextUser ==
    \/ \E a \in Ids : SwitchUser(a)
    \/ \E id \in Ids, patch \in Patches : Update(id, patch)
    \/ \E id \in Ids : Remove(id)
    \/ \E ids \in SUBSET Ids : BatchRemove(ids)
    \/ \E id \in Ids, password \in Passwords : ResetPassword(id, password)
    \/ \E id \in Ids, generated \in Passwords : ResetPasswordAuto(id, generated)
    \/ \E id \in Ids, status \in BooleanNumber : SetStatus(id, status)
    \/ \E id \in Ids, delta \in Deltas : ChangeBalance(id, delta)
    \/ \E id \in Ids : FindOneById(id)

(***************************************************************************)
(* Permission cache (RolePermissionService under the UserController)       *)
(***************************************************************************)
\* the permission codes of a role, as the Role / RolePermission data give them
Perms(role) ==
    IF role = "editor" THEN <<"user:detail", "user:update">>
    ELSE <<"user:detail">>

\* mutant: clearUserCache leaves the entry where it is
Invalidate_Keep(cache, id) == cache

\* the cache without the entry of id: what clearUserCache(id) leaves
Invalidate(cache, id) == [i \in DOMAIN cache \ {id} |-> cache[i]]

RECURSIVE InvalidateTimes(_, _, _)
\* the cache after n calls of clearUserCache(id)
InvalidateTimes(cache, id, n) ==
    IF n = 0 THEN cache ELSE InvalidateTimes(Invalidate(cache, id), id, n - 1)

\* the cache with the entry of id set to perms
CachePut(cache, id, perms) ==
    [i \in DOMAIN cache \cup {id} |-> IF i = id THEN perms ELSE cache[i]]

\* what getUserPermissions(id) returns when it runs alone on this cache: the
\* cached codes, or the codes computed from the user's current role
GetUserPermissions(cache, id) ==
    IF id \in DOMAIN cache THEN cache[id] ELSE Perms(users[id].role)

\* GET users/info up to the suspension inside getUserPermissions: the user is
\* loaded, the cache is looked up; on a miss the role data is read and the
\* request waits to write the cache
GetUserInfo ==
    /\ nreq + Cardinality(getting) < MaxRequests
    /\ UNCHANGED <<users, currentUser, clearRequested>>
    /\ IF ~Exists(currentUser)
       THEN /\ Respond("getUserInfo", "notFound", <<>>)
       ELSE IF currentUser \in DOMAIN permCache
            THEN /\ RespondWith("getUserInfo", "ok", <<>>,
                                DOMAIN Project(users[currentUser], {"password"}))
                 /\ UNCHANGED cacheVars
            ELSE /\ getting' = getting \cup
                        {[id |-> currentUser,
                          fields |-> DOMAIN Project(users[currentUser], {"password"}),
                          perms |-> Perms(users[currentUser].role)]}
                 /\ UNCHANGED <<last, nreq, permCache, warned, nonUserVars>>

\* GET users/info from the cache write of getUserPermissions to its return
GetUserInfoDone(g) ==
    /\ g \in getting
    /\ getting' = getting \ {g}
    /\ permCache' = CachePut(permCache, g.id, g.perms)
    /\ RespondWith("getUserInfo", "ok", <<>>, g.fields)
    /\ UNCHANGED <<users, currentUser, clearRequested, warned>>

\* the clearUserCache(id) that update issued ends.  ok: it cleared the entry;
\* otherwise it rejected and the .catch handler logged a warning
ClearUserCacheDone(id, ok) ==
    /\ id \in clearRequested
    /\ clearRequested' = clearRequested \ {id}
    /\ IF ok
       THEN /\ permCache' = Invalidate(permCache, id)
            /\ UNCHANGED warned
       ELSE /\ warned' = warned \cup {id}
            /\ UNCHANGED permCache
    /\ UNCHANGED <<users, currentUser, last, nreq, getting, nonUserVars>>

InitCache ==
    /\ permCache = [i \in {} |-> <<>>]
    /\ getting = {}
    /\ warned = {}

NextCache ==
    \/ \E a \in Ids : SwitchUser(a)
    \/ \E id \in Ids, patch \in RolePatches : Update(id, patch)
    \/ \E id \in Ids : FindOneById(id)
    \/ GetUserInfo
    \/ \E g \in getting : GetUserInfoDone(g)
    \/ \E id \in Ids, ok \in BOOLEAN : ClearUserCacheDone(id, ok)

(***************************************************************************)
(* Login settings (UserController over DictService)                        *)
(*                                                                         *)
(* An optional value is a sequence of length 0 (undefined) or 1.  A method *)
(* list is the set of its members: the validator only tests the list for   *)
(* emptiness and membership.                                               *)
(***************************************************************************)
\* Object.values(LOGIN_TYPE): the recognized login types
LOGIN_TYPE == {"account", "phone", "wechat"}

\* the method identifiers a submitted config is built from
InputMethods == {"account", "phone", "bogus"}

\* a method list of a submitted config: undefined, or a list
MethodLists == {<<>>} \cup {<<l>> : l \in SUBSET InputMethods}

Configs ==
    {[allowedLoginMethods |-> l, allowedRegisterMethods |-> r,
      defaultLoginMethod |-> d, allowMultipleLogin |-> TRUE,
      showPolicyAgreement |-> TRUE] :
        l \in MethodLists, r \in MethodLists,
        d \in {<<>>} \cup {<<m>> : m \in InputMethods}}

\* getDefaultLoginSettings()
DefaultLoginSettings ==
    [allowedLoginMethods |-> <<{"account", "phone", "wechat"}>>,
     allowedRegisterMethods |-> <<{"account", "phone"}>>,
     defaultLoginMethod |-> <<"account">>,
     allowMultipleLogin |-> FALSE,
     showPolicyAgreement |-> TRUE]

\* `!list || list.length === 0`
EmptyList(list) == list = <<>> \/ list[1] = {}

\* mutant: the register list is not tested for emptiness
ValidateLoginSettings_NoRegisterCheck(config) ==
    IF EmptyList(config.allowedLoginMethods) THEN "loginEmpty"
    ELSE IF ~(/\ config.defaultLoginMethod # <<>>
              /\ config.defaultLoginMethod[1] \in config.allowedLoginMethods[1])
         THEN "defaultNotAllowed"
    ELSE IF \E m \in config.allowedLoginMethods[1] : m \notin LOGIN_TYPE
         THEN "invalidLogin"
    ELSE IF /\ config.allowedRegisterMethods # <<>>
            /\ \E m \in config.allowedRegisterMethods[1] : m \notin LOGIN_TYPE
         THEN "invalidRegister"
    ELSE "ok"

\* validateLoginSettings(config): "ok", or the paramError it throws, in the
\* order the code tests
ValidateLoginSettings(config) ==
    IF EmptyList(config.allowedLoginMethods) THEN "loginEmpty"
    ELSE IF ~(/\ config.defaultLoginMethod # <<>>
              /\ config.defaultLoginMethod[1] \in config.allowedLoginMethods[1])
         THEN "defaultNotAllowed"
    ELSE IF EmptyList(config.allowedRegisterMethods) THEN "registerEmpty"
    ELSE IF \E m \in config.allowedLoginMethods[1] : m \notin LOGIN_TYPE
         THEN "invalidLogin"
    ELSE IF \E m \in config.allowedRegisterMethods[1] : m \notin LOGIN_TYPE
         THEN "invalidRegister"
    ELSE "ok"

\* dictService.get(key, defaultValue, group) on the entry login_settings
DictGet(entry, defaultValue) == IF entry = <<>> THEN defaultValue ELSE entry[1]

\* dictService.set(key, value, { group }) on the entry login_settings
DictSet(entry, value) == <<value>>

\* what the login-settings handlers never touch
nonLoginVars == <<restartVars, userVars, cacheVars, layoutVars, groupVars>>

\* GET users/login-settings
GetLoginSettings ==
    /\ lastLogin' = [op |-> "getLoginSettings", kind |-> "ok",
                     config |-> DictGet(dict, DefaultLoginSettings)]
    /\ UNCHANGED dict
    /\ UNCHANGED nonLoginVars

\* mutant: the config is stored before it is validated
SetLoginSettings_StoreFirst(config) ==
    /\ dict' = DictSet(dict, config)
    /\ lastLogin' = [op |-> "setLoginSettings",
                     kind |-> ValidateLoginSettings(config), config |-> config]
    /\ UNCHANGED nonLoginVars

\* POST users/login-settings
SetLoginSettings(config) ==
    /\ IF ValidateLoginSettings(config) # "ok"
       THEN /\ lastLogin' = [op |-> "setLoginSettings",
                             kind |-> ValidateLoginSettings(config),
                             config |-> config]
            /\ UNCHANGED dict
       ELSE /\ dict' = DictSet(dict, config)
            /\ lastLogin' = [op |-> "setLoginSettings", kind |-> "ok",
                             config |-> config]
    /\ UNCHANGED nonLoginVars

InitLogin ==
    /\ dict = <<>>
    /\ lastLogin = [op |-> "none", kind |-> "none", config |-> DefaultLoginSettings]

NextLogin ==
    \/ GetLoginSettings
    \/ \E config \in Configs : SetLoginSettings(config)

(***************************************************************************)
(* Layout configuration (console PageController over PageService)          *)
(*                                                                         *)
(* A page row is [id, name, data]; ids are given in the order of creation. *)
(* saveLayout is cut at its two awaits: the findOne, then the write.       *)
(***************************************************************************)
\* the layout types requested; saveLayout is only ever called for "web"
LayoutTypes == {"web", "mobile"}

SavedTypes == {"web"}

\* the layout data a saveLayout request carries
LayoutData ==
    {[layout |-> "layout-1", menus |-> <<"home">>],
     [layout |-> "layout-2", menus |-> <<"home", "chat">>]}

\* the default configuration getLayoutByType falls back to
DefaultLayout == [layout |-> "layout-1", menus |-> <<>>]

\* pageService.findOne({ where: { name: type } }): the id of a row of that
\* name, any of them when there are several, or 0 (null) when there is none
FindOneByName(type) ==
    IF \E p \in pages : p.name = type
    THEN {p.id : p \in {q \in pages : q.name = type}}
    ELSE {0}

\* the row of an id
PageOf(id) == CHOOSE p \in pages : p.id = id

\* what the layout handlers never touch
nonLayoutVars == <<restartVars, userVars, cacheVars, loginVars, groupVars>>

\* GET decorate-page/layout/:type
GetLayoutByType(type) ==
    /\ \E result \in FindOneByName(type) :
          lastLayout' =
             IF result = 0
             THEN [op |-> "getLayoutByType", type |-> type, id |-> 0,
                   data |-> DefaultLayout]
             ELSE [op |-> "getLayoutByType", type |-> type, id |-> result,
                   data |-> PageOf(result).data]
    /\ UNCHANGED <<pages, saving>>
    /\ UNCHANGED nonLayoutVars

\* POST decorate-page/layout/:type up to the resolved findOne
SaveLayout(type, data) ==
    /\ Cardinality(saving) < MaxSaving
    /\ \E existing \in FindOneByName(type) :
          saving' = saving \cup {[type |-> type, data |-> data, existing |-> existing]}
    /\ UNCHANGED <<pages, lastLayout>>
    /\ UNCHANGED nonLayoutVars

\* POST decorate-page/layout/:type from the findOne to its return:
\* updateById(existing.id, { data }) or create({ name: type, data })
SaveLayoutWrite(s) ==
    /\ s \in saving
    /\ saving' = saving \ {s}
    /\ IF s.existing # 0
       THEN /\ pages' = {IF p.id = s.existing THEN [p EXCEPT !.data = s.data] ELSE p :
                            p \in pages}
            /\ lastLayout' = [op |-> "saveLayout", type |-> s.type,
                              id |-> s.existing, data |-> s.data]
       ELSE /\ Cardinality(pages) < MaxPages
            /\ pages' = pages \cup {[id |-> Cardinality(pages) + 1,
                                      name |-> s.type, data |-> s.data]}
            /\ lastLayout' = [op |-> "saveLayout", type |-> s.type,
                              id |-> Cardinality(pages) + 1, data |-> s.data]
    /\ UNCHANGED nonLayoutVars

InitLayout ==
    /\ pages = {}
    /\ saving = {}
    /\ lastLayout = [op |-> "none", type |-> "web", id |-> 0, data |-> DefaultLayout]

NextLayout ==
    \/ \E type \in LayoutTypes : GetLayoutByType(type)
    \/ \E type \in SavedTypes, data \in LayoutData : SaveLayout(type, data)
    \/ \E s \in saving : SaveLayoutWrite(s)

(***************************************************************************)
(* Conversation grouping (getDateGroup, getGroupWeight,                    *)
(* groupConversationsByDate)                                               *)
(*                                                                         *)
(* A date is [year, month, day] with month 1..12; a group key is a         *)
(* sequence of one-character strings for the year-month keys ("2023-5" is  *)
(* <<"2","0","2","3","-","5">>) and a one-element sequence for the named   *)
(* groups (<<"today">>).                                                   *)
(***************************************************************************)
\* new Date(): the day the grouping runs
Now == [year |-> 2023, month |-> 6, day |-> 15]

\* the dates the conversations carry
Dates ==
    {[year |-> 2023, month |-> 6, day |-> 15],
     [year |-> 2023, month |-> 6, day |-> 14],
     [year |-> 2023, month |-> 6, day |-> 12],
     [year |-> 2023, month |-> 6, day |-> 10],
     [year |-> 2023, month |-> 5, day |-> 20],
     [year |-> 2023, month |-> 5, day |-> 10],
     [year |-> 2023, month |-> 1, day |-> 31],
     [year |-> 2022, month |-> 12, day |-> 25]}

\* the days of a year before its month m (2022 and 2023 are not leap years)
DaysBeforeMonth == <<0, 31, 59, 90, 120, 151, 181, 212, 243, 273, 304, 334>>

\* Date.getTime() of the date's midnight, in days
DayNumber(date) == (date.year - 2022) * 365 + DaysBeforeMonth[date.month] + date.day

DigitChars == <<"0", "1", "2", "3", "4", "5", "6", "7", "8", "9">>

RECURSIVE Digits(_)
\* `${n}`: the decimal digits of n >= 0
Digits(n) ==
    IF n < 10 THEN <<DigitChars[n + 1]>>
    ELSE Digits(n \div 10) \o <<DigitChars[(n % 10) + 1]>>

RECURSIVE ParseIntFrom(_, _)
\* parseInt(s): the number its leading digits spell, read onto acc
ParseIntFrom(s, acc) ==
    IF s = <<>> \/ ~(\E d \in 1..10 : DigitChars[d] = Head(s)) THEN acc
    ELSE ParseIntFrom(Tail(s),
                      acc * 10 + (CHOOSE d \in 1..10 : DigitChars[d] = Head(s)) - 1)

ParseInt(s) == ParseIntFrom(s, 0)

RECURSIVE UpToDash(_)
\* the characters of s before its first "-"
UpToDash(s) ==
    IF s = <<>> \/ Head(s) = "-" THEN <<>> ELSE <<Head(s)>> \o UpToDash(Tail(s))

RECURSIVE AfterDash(_)
\* the characters of s after its first "-"
AfterDash(s) ==
    IF s = <<>> THEN <<>> ELSE IF Head(s) = "-" THEN Tail(s) ELSE AfterDash(Tail(s))

\* getDateGroup(date)
GetDateGroup(date) ==
    LET diffDays == DayNumber(Now) - DayNumber(date)
    IN  IF diffDays = 0 THEN <<"today">>
        ELSE IF diffDays = 1 THEN <<"yesterday">>
        ELSE IF diffDays <= 7 THEN <<"week">>
        ELSE IF diffDays <= 30 THEN <<"month">>
        ELSE Digits(date.year) \o <<"-">> \o Digits(date.month)

\* getGroupWeight(groupKey)
GetGroupWeight(groupKey) ==
    IF groupKey = <<"today">> THEN 1
    ELSE IF groupKey = <<"yesterday">> THEN 2
    ELSE IF groupKey = <<"week">> THEN 3
    ELSE IF groupKey = <<"month">> THEN 4
    ELSE IF \E i \in 1..Len(groupKey) : groupKey[i] = "-"
         THEN 1000 + ParseInt(UpToDash(groupKey)) * 100
                   + ParseInt(UpToDash(AfterDash(groupKey)))
         ELSE 9999

RECURSIVE GroupKeys(_, _)
\* the keys of the Map, in the order they were first set
GroupKeys(convs, seen) ==
    IF convs = <<>> THEN seen
    ELSE LET k == GetDateGroup(Head(convs).date)
         IN  GroupKeys(Tail(convs),
                       IF \E i \in 1..Len(seen) : seen[i] = k THEN seen
                       ELSE Append(seen, k))

RECURSIVE InsertItem(_, _)
\* x put into the sorted items s, behind every item that is not older
InsertItem(s, x) ==
    IF s = <<>> THEN <<x>>
    ELSE IF DayNumber(x.date) - DayNumber(Head(s).date) > 0 THEN <<x>> \o s
    ELSE <<Head(s)>> \o InsertItem(Tail(s), x)

RECURSIVE SortItems(_, _)
\* items.sort((a, b) => time(b) - time(a)): a stable sort, newest first
SortItems(items, sorted) ==
    IF items = <<>> THEN sorted
    ELSE SortItems(Tail(items), InsertItem(sorted, Head(items)))

RECURSIVE InsertGroup(_, _)
\* g put into the sorted groups s, behind every group of no larger weight
InsertGroup(s, g) ==
    IF s = <<>> THEN <<g>>
    ELSE IF GetGroupWeight(g.key) - GetGroupWeight(Head(s).key) < 0 THEN <<g>> \o s
    ELSE <<Head(s)>> \o InsertGroup(Tail(s), g)

RECURSIVE SortGroups(_, _)
\* .sort((a, b) => getGroupWeight(a.key) - getGroupWeight(b.key))
SortGroups(gs, sorted) ==
    IF gs = <<>> THEN sorted
    ELSE SortGroups(Tail(gs), InsertGroup(sorted, Head(gs)))

\* groupConversationsByDate(conversations)
GroupConversationsByDate(convs) ==
    LET keys == GroupKeys(convs, <<>>)
        entries == [i \in 1..Len(keys) |->
                      [key |-> keys[i],
                       items |-> SortItems(
                           SelectSeq(convs, LAMBDA c : GetDateGroup(c.date) = keys[i]),
                           <<>>)]]
    IN  SortGroups(entries, <<>>)

\* the lists of conversations handed in: item i carries the id i
ConversationLists ==
    UNION {{[i \in 1..n |-> [id |-> i, date |-> ds[i]]] : ds \in [1..n -> Dates]} :
              n \in 1..MaxItems}

\* what the grouping never touches
nonGroupVars == <<restartVars, userVars, cacheVars, loginVars, layoutVars>>

\* the chat page receives its list of conversations
Receive(list) ==
    /\ conversations = <<>>
    /\ ~groups.done
    /\ conversations' = list
    /\ UNCHANGED groups
    /\ UNCHANGED nonGroupVars

\* the chat page groups the list it holds
Group ==
    /\ ~groups.done
    /\ groups' = [done |-> TRUE, result |-> GroupConversationsByDate(conversations)]
    /\ UNCHANGED conversations
    /\ UNCHANGED nonGroupVars

InitGroup ==
    /\ conversations = <<>>
    /\ groups = [done |-> FALSE, result |-> <<>>]

NextGroup ==
    \/ \E list \in ConversationLists : Receive(list)
    \/ Group

Init == InitRestart /\ InitUser /\ InitCache /\ InitLogin /\ InitLayout /\ InitGroup

Next == NextRestart \/ NextUser \/ NextCache \/ NextLogin \/ NextLayout \/ NextGroup

Spec == Init /\ [][Next]_vars

\* the restart coordinator alone, the account store left as it starts
InitRestartOnly ==
    /\ Init
    /\ currentUser = 1
    /\ \A i \in Ids : users[i].isRoot = 0

SpecRestart == InitRestartOnly /\ [][NextRestart]_vars

\* the user administration alone, the restart coordinator left idle
InitUserOnly == Init /\ pm2Env = FALSE

SpecUser == InitUserOnly /\ [][NextUser]_vars

\* everything idle: one initial state
InitIdle == InitRestartOnly /\ pm2Env = FALSE

\* the login settings alone
SpecLogin == InitIdle /\ [][NextLogin]_vars

\* the conversation grouping alone
SpecGroup == InitIdle /\ [][NextGroup]_vars

\* the layout configuration alone
SpecLayout == InitIdle /\ [][NextLayout]_vars

\* the account store holds the users 1..MaxCacheUsers, the first of them
\* root or not; the other ids have no row
InitCacheOnly ==
    /\ InitRestart /\ InitCache /\ InitLogin /\ InitLayout /\ InitGroup
    /\ pm2Env = FALSE
    /\ \E root \in BooleanNumber :
          users = [i \in 1..MaxCacheUsers |-> NewUser(IF i = 1 THEN root ELSE 0)]
    /\ currentUser \in Ids
    /\ clearRequested = {}
    /\ last = [op |-> "none", kind |-> "none", listed |-> <<>>, fields |-> {}]
    /\ nreq = 0

\* the user controller with the permission cache behind it
SpecCache == InitCacheOnly /\ [][NextCache]_vars

(***************************************************************************)
(* Restart coordinator: properties                                         *)
(***************************************************************************)
NoThrow == \A c \in Calls : calls[c].pc # "threw"

NoTimerError == \A c \in Calls : ~calls[c].timerErr

Scheduled == {c \in Calls : calls[c].timer # "none"}

Accepted == {c \in Calls : calls[c].result = "accepted"}

Issued(c) == calls[c].pc = "idle" /\ calls'[c].pc # "idle"

C1_Inv ==
    NoThrow =>
        /\ Cardinality(Scheduled) <= 1
        /\ Cardinality({c \in Calls : calls[c].pc = "probe"} \cup Accepted) <= 1
        /\ \A c \in Calls : calls[c].result = "declined" =>
               calls[c].pc = "returned" /\ calls[c].timer = "none"
        /\ \A c \in Accepted : calls[c].pc = "returned" /\ c \in Scheduled

C1_Step ==
    \A c \in Calls :
        /\ (Issued(c) /\ NoThrow') =>
              IF \A d \in Calls : calls[d].pc = "idle"
              THEN calls'[c].pc = "probe" /\ isRestarting'
              ELSE /\ isRestarting
                   /\ calls'[c].pc = "returned"
                   /\ calls'[c].result = "declined"
                   /\ isRestarting'
                   /\ Scheduled' = Scheduled
        /\ (Issued(c) /\ isRestarting /\ calls'[c].pc # "threw") =>
              /\ calls'[c].result = "declined"
              /\ isRestarting'
              /\ Scheduled' = Scheduled
        /\ (calls[c].pc = "probe" /\ calls'[c].pc = "returned" /\ NoThrow') =>
              /\ calls'[c].result = "accepted"
              /\ calls'[c].timer = "scheduled"
              /\ isRestarting'

\* C1: when no request throws, the first request is the only one accepted:
\* it sets isRestarting and schedules one restart action; every request
\* issued while isRestarting is set (also while the first one still awaits
\* the probe) returns the declined result, schedules nothing and leaves the
\* flag set; at most one restart action is ever scheduled.
C1_SingleRestart == []C1_Inv /\ [][C1_Step]_vars

C1_Witness ==
    /\ NoThrow
    /\ \E c, d, e \in Calls :
          /\ calls[c].result = "accepted" /\ calls[c].timer = "scheduled"
          /\ calls[d].result = "declined"
          /\ calls[e].result = "declined"
          /\ d # e

C2_Inv ==
    /\ \A c \in Calls : calls[c].timer \in {"exec", "done"} =>
           calls[c].pc = "returned" /\ calls[c].result = "accepted"
    /\ \A c \in pm2Issued : calls[c].pc = "returned" /\ calls[c].result = "accepted"
    /\ ~Alive => \E c \in Accepted : calls[c].pc = "returned" /\ calls[c].timer = "done"

C2_Step ==
    \A c \in Calls :
        (calls[c].pc # "returned" /\ calls'[c].pc = "returned"
            /\ calls'[c].result = "accepted") =>
            /\ calls'[c].timer = "scheduled"
            /\ Alive'
            /\ c \notin pm2Issued'

\* C2: an accepted request returns its result before its restart action
\* runs: the pm2 command and process.exit never happen before the accepted
\* result was returned, and at the return the restart action is still only
\* scheduled (the request does not wait for it).
C2_ReturnBeforeRestart == []C2_Inv /\ [][C2_Step]_vars

C2_Witness ==
    \E c \in Calls :
        /\ calls[c].result = "accepted"
        /\ calls[c].timer = "done"
        /\ exitCode = {ExitRestart}

\* C3: a finished restart action that raised no error has, with a supervisor
\* detected, issued the pm2 restart command and, when that command failed,
\* exited with code 0; without a supervisor it has exited with code 0.  A
\* finished restart action always leaves a successful pm2 command or a
\* terminated process.
C3_RestartAction ==
    \A c \in Calls :
        /\ calls[c].timer = "exec" => calls[c].isPm2
        /\ (calls[c].timer = "done" /\ ~calls[c].timerErr) =>
              IF calls[c].isPm2
              THEN \/ calls[c].execOk = "ok" /\ c \in pm2Issued
                   \/ calls[c].execOk = "fail" /\ exitCode = {ExitRestart}
              ELSE /\ calls[c].execOk = "none"
                   /\ c \notin pm2Issued
                   /\ exitCode = {ExitRestart}
        /\ calls[c].timer = "done" => (c \in pm2Issued \/ ~Alive)

C3_Witness ==
    \E c \in Calls :
        /\ calls[c].timer = "done"
        /\ calls[c].isPm2
        /\ calls[c].execOk = "fail"
        /\ exitCode = {ExitRestart}

\* C4: once a restart action has raised an error the process has exited
\* with code 1, which differs from the designated code 0, and isRestarting
\* is false: the coordinator is not left pending in a live process.
C4_ErrorForcesExit ==
    \A c \in Calls :
        calls[c].timerErr =>
            /\ exitCode = {ExitFailure}
            /\ ExitFailure # ExitRestart
            /\ ~isRestarting
            /\ ~(isRestarting /\ Alive)

C4_Witness == \E c \in Calls : calls[c].timerErr /\ calls[c].isPm2

C5_Step ==
    \A c \in Calls :
        /\ (calls[c].pc # "threw" /\ calls'[c].pc = "threw") =>
              /\ ~isRestarting'
              /\ calls'[c].timer = "none"
              /\ calls'[c].result = "none"
              /\ Scheduled' = Scheduled
              /\ Alive'
        /\ (Issued(c) /\ ~isRestarting /\ calls'[c].pc # "threw") =>
              calls'[c].pc = "probe" /\ isRestarting'

\* C5: a request that throws before it returns leaves isRestarting false,
\* schedules no restart action and is reported as an error; a request
\* issued while the flag is false (so: right after such a failure) passes
\* the guard and goes on to be accepted.
C5_ThrowResets == [][C5_Step]_vars

C5_Witness ==
    \E c, d \in Calls :
        /\ calls[c].pc = "threw"
        /\ calls[d].result = "accepted"
        /\ \A e \in Calls \ {c, d} : calls[e].pc = "idle"

C6_Inv ==
    (NoThrow /\ NoTimerError /\ \E c \in Calls : calls[c].pc = "probe" \/ c \in Accepted)
        => isRestarting

C6_Step ==
    /\ (isRestarting /\ ~isRestarting') =>
          \E c \in Calls :
              \/ calls[c].pc # "threw" /\ calls'[c].pc = "threw"
              \/ ~calls[c].timerErr /\ calls'[c].timerErr
    /\ \A c \in Calls :
          /\ c \in Accepted => c \in Accepted'
          /\ calls[c].timer = "scheduled" => calls'[c].timer \in {"scheduled", "exec", "done"}
          /\ calls[c].timer = "exec" => calls'[c].timer \in {"exec", "done"}
          /\ calls[c].timer = "done" => calls'[c].timer = "done"

\* C6: isRestarting falls from true to false only in a step that raises an
\* error (in a request before it returns, or in a restart action); an
\* accepted request stays accepted and its restart action is never
\* unscheduled; in a run without errors isRestarting is true from the
\* acceptance on.
C6_ResetOnlyOnError == []C6_Inv /\ [][C6_Step]_vars

C6_Witness ==
    /\ NoThrow /\ NoTimerError /\ Alive /\ isRestarting
    /\ \E c \in Calls : c \in pm2Issued /\ calls[c].timer = "done"
    /\ \E d \in Calls : calls[d].result = "declined"

(***************************************************************************)
(* User administration: properties                                         *)
(***************************************************************************)
IsRootUser(u) == u \in DOMAIN users /\ IsEnabled(users[u].isRoot)

RootsKept ==
    \A u \in Ids : IsRootUser(u) => u \in DOMAIN users' /\ users'[u] = users[u]

\* the step is the handling of one request of the named operation
StepOf(op) == nreq' = nreq + 1 /\ last'.op = op

C7_Step ==
    /\ StepOf("remove") =>
          /\ RootsKept
          /\ \A id \in Ids :
                (Remove(id) /\ IsRootUser(id)) => last'.kind = "unauthorized"
    /\ StepOf("batchRemove") =>
          /\ RootsKept
          /\ \A ids \in SUBSET Ids :
                (BatchRemove(ids) /\ \E i \in ids : IsRootUser(i)) =>
                    last'.kind = "unauthorized"

\* C7: remove of a root user and batchRemove of ids that hold a root user
\* end with the authorization error, and every root user in the store
\* before a remove or batchRemove request is in it, unchanged, after it.
C7_RootNeverRemoved == [][C7_Step]_vars

C7_Witness ==
    /\ last.op = "remove"
    /\ last.kind = "unauthorized"
    /\ nreq = MaxRequests
    /\ \E u \in Ids : IsRootUser(u)
    /\ \E u \in Ids : u \notin DOMAIN users

C8_Step ==
    StepOf("batchRemove") =>
        \A ids \in SUBSET Ids :
            LET roots == {i \in ids : IsRootUser(i)}
            IN  (BatchRemove(ids) /\ roots # {}) =>
                    /\ last'.kind = "unauthorized"
                    /\ {last'.listed[k] : k \in 1..Len(last'.listed)} = roots
                    /\ Len(last'.listed) = Cardinality(roots)
                    /\ users' = users

\* C8: a batchRemove whose ids hold at least one root user raises an error
\* that lists each root user among the existing targets, once, and the
\* request deletes no user.
C8_BatchListsEveryRoot == [][C8_Step]_vars

C8_Witness ==
    /\ last.op = "batchRemove"
    /\ last.kind = "unauthorized"
    /\ Len(last.listed) >= 2
    /\ DOMAIN users = Ids
    /\ \E u \in Ids : ~IsRootUser(u)

Patched(id, patch) ==
    /\ DOMAIN users' = DOMAIN users
    /\ \A f \in DOMAIN patch : users'[id][f] = patch[f]
    /\ \A f \in DOMAIN users[id] \ DOMAIN patch : users'[id][f] = users[id][f]
    /\ \A j \in DOMAIN users \ {id} : users'[j] = users[j]

C9_Step ==
    StepOf("update") =>
        \A id \in Ids, patch \in Patches :
            (Update(id, patch) /\ Exists(id)) =>
                IF IsRootUser(id) /\ currentUser # id
                THEN last'.kind = "unauthorized" /\ users' = users
                ELSE last'.kind = "ok" /\ Patched(id, patch)

\* C9: update of an existing root user by another user ends with the
\* authorization error and changes nothing; by the root user itself it
\* writes the patch's fields; update of a non-root user writes the patch's
\* fields whoever calls.
C9_RootUpdateOnlyBySelf == [][C9_Step]_vars

C9_Witness ==
    /\ last.op = "update"
    /\ last.kind = "ok"
    /\ IsRootUser(currentUser)
    /\ users[currentUser].nickname = "bob"
    /\ \E u \in Ids \ {currentUser} : IsRootUser(u)

\* C10: in every step, a root account that is changed or deleted is the
\* account of the user who made the request.
C10_RootOnlySelfMutated ==
    [][\A u \in Ids :
          (IsRootUser(u) /\ (u \notin DOMAIN users' \/ users'[u] # users[u]))
              => currentUser = u]_vars

(***************************************************************************)
(* C16 (as stated): the supervisor probe is performed by the scheduled     *)
(* restart action, after the accepted response was returned, and not by    *)
(* the requesting call: a request's probe answer is only ever established  *)
(* by a step of its timer callback, on a request that already returned     *)
(* accepted.                                                               *)
(***************************************************************************)
C16_ProbeInScheduledAction ==
    [][\A c \in Calls :
          calls'[c].isPm2 # calls[c].isPm2
             => /\ calls[c].timer = "scheduled"
                /\ calls[c].result = "accepted"]_vars

(***************************************************************************)
(* C16 (amended): the supervisor probe is performed by the requesting call *)
(* before it returns: the probe's answer is established only by the step   *)
(* that resumes the call from `await checkIfRunningWithPm2()` and returns  *)
(* accepted, that step schedules the deferred action, environment markers  *)
(* make the answer true, and the deferred action never probes again: it    *)
(* leaves the captured answer unchanged and branches on it.                *)
(***************************************************************************)
C16_Step ==
    \A c \in Calls :
       /\ calls'[c].isPm2 # calls[c].isPm2
             => /\ calls[c].pc = "probe"
                /\ calls'[c].pc = "returned"
                /\ calls[c].timer = "none"
       /\ calls[c].pc = "probe" /\ calls'[c].pc = "returned"
             => /\ calls'[c].result = "accepted"
                /\ calls'[c].timer = "scheduled"
                /\ pm2Env => calls'[c].isPm2
       /\ calls[c].timer # "none" => calls'[c].isPm2 = calls[c].isPm2
       /\ calls[c].timer = "scheduled" /\ calls'[c].timer = "exec"
             => calls[c].isPm2
       /\ calls[c].timer = "scheduled" /\ calls'[c].timer = "done"
                                       /\ ~calls'[c].timerErr
             => ~calls[c].isPm2

C16_ProbeBeforeReturn == [][C16_Step]_vars

\* a request returned accepted with a positive probe answer that came from
\* the process list, while its deferred action has not run yet
C16_Witness ==
    \E c \in Calls :
       /\ calls[c].pc = "returned"
       /\ calls[c].result = "accepted"
       /\ calls[c].isPm2
       /\ ~pm2Env
       /\ calls[c].timer = "scheduled"

(***************************************************************************)
(* C15: update, remove and findOneById on an id that no user row has fail  *)
(* with not-found and change nothing: no row is modified or deleted and no *)
(* cache invalidation is requested.                                        *)
(***************************************************************************)
C15_Step ==
    \A id \in Ids :
       ~Exists(id) =>
          /\ StepOf("update") /\ (\E patch \in Patches : Update(id, patch))
                => /\ last'.kind = "notFound"
                   /\ users' = users
                   /\ clearRequested' = clearRequested
                   /\ permCache' = permCache
          /\ StepOf("remove") /\ Remove(id)
                => /\ last'.kind = "notFound"
                   /\ users' = users
                   /\ clearRequested' = clearRequested
                   /\ permCache' = permCache
          /\ StepOf("findOneById") /\ FindOneById(id)
                => /\ last'.kind = "notFound"
                   /\ last'.fields = {}
                   /\ users' = users
                   /\ clearRequested' = clearRequested
                   /\ permCache' = permCache

C15_AbsentIdNotFound == [][C15_Step]_vars

\* a user was deleted and a later findOneById of an absent id was answered
\* not-found
C15_Witness ==
    /\ DOMAIN users # Ids
    /\ last.op = "findOneById"
    /\ last.kind = "notFound"

(***************************************************************************)
(* Permission cache: properties                                            *)
(***************************************************************************)
C11_Step ==
    /\ \A id \in Ids :
          StepOf("update") /\ (\E patch \in RolePatches : Update(id, patch))
             => IF last'.kind = "ok"
                THEN /\ id \in clearRequested'
                     /\ permCache' = permCache
                     /\ warned' = warned
                ELSE /\ clearRequested' = clearRequested
                     /\ users' = users
    /\ clearRequested' # clearRequested /\ nreq' = nreq
          => /\ users' = users
             /\ last' = last
             /\ \A id \in Ids, ok \in BOOLEAN :
                   ClearUserCacheDone(id, ok) /\ ~ok
                      => /\ id \in warned'
                         /\ permCache' = permCache

\* C11: every update that persists requests the invalidation of the cache
\* entry of that id and returns without waiting for it (the request is still
\* outstanding and the cache untouched when update returns); the ending of
\* an invalidation, failed or not, changes neither the returned result nor
\* the stored user, and a failed one is only logged; an update that fails
\* (not found, unauthorized) requests no invalidation.
C11_InvalidateAfterUpdate == [][C11_Step]_vars

\* an update persisted and returned ok, and its invalidation failed and was
\* logged: the row keeps the new role
C11_Witness ==
    \E id \in warned :
       /\ last.op = "update"
       /\ last.kind = "ok"
       /\ id \in DOMAIN users
       /\ users[id].role = "editor"
       /\ clearRequested = {}

C13_NoSecretFields == last.fields \cap SecretFields = {}

\* no update or invalidation is outstanding, no invalidation failed, and no
\* getUserInfo is suspended
CacheQuiescent ==
    /\ clearRequested = {}
    /\ warned = {}
    /\ getting = {}

\* C19: once every update and every invalidation it issued has completed
\* without error, in whatever way they interleaved with getUserInfo
\* requests, every later getUserPermissions(id) returns the codes computed
\* from the user's current role.
C19_FreshAfterQuiescence ==
    CacheQuiescent =>
        \A id \in DOMAIN users :
            GetUserPermissions(permCache, id) = Perms(users[id].role)

(***************************************************************************)
(* Login settings: properties                                              *)
(***************************************************************************)
\* the members of an optional method list
Members(list) == IF list = <<>> THEN {} ELSE list[1]

\* C14: validateLoginSettings(config) fails exactly when allowedLoginMethods
\* is empty or missing, or allowedRegisterMethods is empty or missing, or
\* defaultLoginMethod is not a member of allowedLoginMethods, or a member of
\* either list is not a recognized login type; otherwise it succeeds.
C14_ValidateExact ==
    lastLogin.op = "setLoginSettings" =>
        LET config == lastLogin.config
        IN  (lastLogin.kind # "ok") <=>
               \/ Members(config.allowedLoginMethods) = {}
               \/ Members(config.allowedRegisterMethods) = {}
               \/ config.defaultLoginMethod = <<>>
               \/ config.defaultLoginMethod[1]
                      \notin Members(config.allowedLoginMethods)
               \/ \E m \in Members(config.allowedLoginMethods)
                              \cup Members(config.allowedRegisterMethods) :
                      m \notin LOGIN_TYPE

\* a config that passes every test but the last one was rejected
C14_Witness ==
    /\ lastLogin.op = "setLoginSettings"
    /\ lastLogin.kind = "invalidRegister"
    /\ lastLogin.config.allowedRegisterMethods = <<{"account", "bogus"}>>

C17_Step ==
    /\ dict' # dict
          => /\ lastLogin'.op = "setLoginSettings"
             /\ lastLogin'.kind = "ok"
             /\ ValidateLoginSettings(lastLogin'.config) = "ok"
    /\ lastLogin' # lastLogin /\ lastLogin'.op = "setLoginSettings"
          => IF ValidateLoginSettings(lastLogin'.config) = "ok"
             THEN /\ lastLogin'.kind = "ok"
                  /\ dict' = <<lastLogin'.config>>
                  /\ DictGet(dict', DefaultLoginSettings) = lastLogin'.config
             ELSE /\ lastLogin'.kind # "ok"
                  /\ dict' = dict
    /\ lastLogin' # lastLogin /\ lastLogin'.op = "getLoginSettings"
          => /\ dict' = dict
             /\ lastLogin'.kind = "ok"
             /\ lastLogin'.config =
                   IF dict = <<>> THEN DefaultLoginSettings ELSE dict[1]

\* C17: setLoginSettings writes the stored settings only when validation
\* succeeds: on failure the stored settings are unchanged, on success they
\* equal the submitted config, which the next getLoginSettings returns;
\* getLoginSettings with nothing stored returns the defaults and writes
\* nothing.
C17_SetOnlyWhenValid == [][C17_Step]_vars

\* a config was stored, a later invalid one was rejected, and the stored one
\* is still there
C17_Witness ==
    /\ dict # <<>>
    /\ dict[1] # DefaultLoginSettings
    /\ lastLogin.op = "setLoginSettings"
    /\ lastLogin.kind # "ok"
    /\ lastLogin.config # dict[1]

(***************************************************************************)
(* Layout configuration: properties                                        *)
(***************************************************************************)
\* C20: saveLayout is an upsert keyed by the layout type: however saveLayout
\* requests are sequenced or interleaved, at most one page row of a name
\* exists, and a type that was never saved has no row.
C20_OneRecordPerType ==
    /\ \A type \in LayoutTypes :
          Cardinality({p \in pages : p.name = type}) <= 1
    /\ \A p \in pages : p.name \in SavedTypes

(***************************************************************************)
(* Conversation grouping: properties                                       *)
(***************************************************************************)
NamedGroups == <<(<<"today">>), (<<"yesterday">>), (<<"week">>), (<<"month">>)>>

\* the place of a named group's key in NamedGroups, 0 for a year-month key
NamedRank(key) ==
    IF \E i \in 1..Len(NamedGroups) : NamedGroups[i] = key
    THEN CHOOSE i \in 1..Len(NamedGroups) : NamedGroups[i] = key
    ELSE 0

\* the month a year-month group stands for, counted from year 0
MonthOf(group) == group.items[1].date.year * 12 + group.items[1].date.month

\* group g stands before group h in the claimed order
ClaimedBefore(g, h) ==
    IF NamedRank(g.key) # 0
    THEN NamedRank(h.key) = 0 \/ NamedRank(g.key) < NamedRank(h.key)
    ELSE NamedRank(h.key) = 0 /\ MonthOf(g) > MonthOf(h)

\* C18: groupConversationsByDate returns the groups today, yesterday, week,
\* month first and the year-month groups after them, a more recent
\* year-month before an older one; every conversation handed in is in
\* exactly one group; within a group the conversations are in descending
\* order of their date.
C18_GroupOrder ==
    groups.done =>
        LET r == groups.result
        IN  /\ \A i, j \in 1..Len(r) : i < j => ClaimedBefore(r[i], r[j])
            /\ \A c \in 1..Len(conversations) :
                  Cardinality({<<i, k>> \in (1..Len(r)) \X (1..MaxItems) :
                                  /\ k <= Len(r[i].items)
                                  /\ r[i].items[k] = conversations[c]}) = 1
            /\ \A i \in 1..Len(r) : \A k, l \in 1..Len(r[i].items) :
                  k < l => DayNumber(r[i].items[k].date) >= DayNumber(r[i].items[l].date)

====
